---- MODULE Spec2Model ----
(***************************************************************************)
(* Model of the public-transport simulation of                             *)
(* src/public_transport/src/main.rs: cities, roads, buses with a route     *)
(* cursor and a travel-time memo, the ledger of waiting passengers, the    *)
(* event queue keyed by (tick, bus id), and Simulation::execute.           *)
(*                                                                         *)
(* A city is its identity (a natural number); city names are distinct, so *)
(* name equality (the HashMap/HashSet keys, `city != current_stop`) and    *)
(* pointer equality (Arc::ptr_eq) coincide.                                *)
(***************************************************************************)
EXTENDS Integers, Sequences, FiniteSets, TLC

\* ---------------------------------------------------------------- bounds
\* People waiting at any one time, ticks executed, calls of a scenario, ticks
\* executed on the line.
MaxWaiting == 2
MaxTime == 3
MaxCalls == 4
MaxRunTime == 5

\* The cities created by new_city.
Cities == {1, 2, 3, 4}

\* Inputs of new_road, <<point_a, point_b, travel_time>>, in the order in
\* which they are made. The first one is stored against the direction in which
\* the routes use it; the last one has travel time 0.
RoadInputs == <<<<2, 1, 1>>, <<2, 3, 1>>, <<3, 4, 0>>>>

\* Inputs of new_bus. FleetInputs[k] holds the routes offered to the new_bus
\* call that would create the k-th bus: a route over three roads, then a route
\* over the second of them.
\* BadRouteInputs are offered to every call: a route that is too short and a
\* route whose two stops no road joins.
FleetInputs == <<{<<1, 2, 3, 4>>}, {<<2, 3>>}>>
BadRouteInputs == {<<1>>, <<1, 3>>}

\* Inputs of add_people: <<from, to>>, and the counts.
PeopleInputs == {<<1, 2>>, <<1, 3>>, <<2, 3>>, <<3, 4>>}
PeopleCounts == 1..MaxWaiting

\* The scenario of main(): cities 1 Plzen, 2 Prague, 3 Brno, 4 Usti, its roads,
\* its routes, its add_people calls <<from, to, count>> and its execute calls.
Plzen == 1
Prague == 2
Brno == 3
Usti == 4
ScenarioRoads ==
    {<<Plzen, Prague, 90>>, <<Prague, Brno, 120>>, <<Prague, Usti, 80>>, <<Plzen, Usti, 110>>}
ScenarioRoutes == {<<Plzen, Prague, Brno>>, <<Prague, Plzen, Usti>>}
ScenarioPeople ==
    {<<Prague, Brno, 50>>, <<Prague, Usti, 50>>, <<Plzen, Usti, 50>>, <<Plzen, Prague, 10>>}
ScenarioTicks == {270, 90}

\* A bus on its own: the roads 1-2 (time 5) and 2-3 (time 7), the routes given
\* to Bus::new (one of them comes back to its first stop), and the stops and
\* times given to calculate_travel_time.
BusRoads == {<<1, 2, 5>>, <<2, 3, 7>>}
BusRouteInputs == {<<1, 2, 3>>, <<3, 2, 1>>, <<1, 2, 1>>, <<2, 3>>}
BusStopInputs == {1, 2, 3}
BusNowInputs == {0, 10}

\* A town of three cities: two roads of different travel times between 1 and
\* 2 and a road of time 0 between 2 and 3, one bus route over them, and people
\* <<from, to>>, some of them waiting at their own destination.
TownRoads == {<<1, 2, 1>>, <<1, 2, 2>>, <<2, 3, 0>>}
TownRoutes == {<<1, 2, 3>>}
TownPeople == {<<1, 2>>, <<1, 3>>, <<3, 3>>}

\* A line of four cities with roads of time 1, the routes of its buses in
\* the order of their creation (along the line, and over its last road), and
\* people <<from, to>>: to the end of the line, back from it, and to it from
\* the stop before.
LineRoads == {<<1, 2, 1>>, <<2, 3, 1>>, <<3, 4, 1>>}
LineRoutes == <<<<1, 2, 3, 4>>, <<3, 4>>>>
LinePeople == {<<1, 4>>, <<4, 3>>, <<3, 4>>}

\* ----------------------------------------------------------------- state
VARIABLES
    roads,             \* Simulation.roads: set of <<a, b, travel_time>>
    buses,             \* Simulation.buses: sequence of Bus records, bus id i at i+1
    waiting_people,    \* Simulation.waiting_people: city -> (city -> count)
    next_bus_id,       \* Simulation.next_bus_id
    event_queue,       \* Simulation.event_queue: <<tick, bus id>> -> Event
    current_time,      \* Simulation.current_time
    pc,                \* "idle", or "loop" while execute runs
    time_units_count,  \* execute: its argument
    end_time,          \* execute: end_time
    loop_time,         \* execute: the loop variable current_time
    cloned_events,     \* execute: the part of cloned_events not yet visited
    events,            \* execute: the vector it builds (each event with its tick)
    fatal,             \* TRUE once a panic has aborted the program
    log,               \* history: the boardings of the last dispatch
    added,             \* history: people added per pair since its last boarding
    prev_last,         \* history: tick of the last event of earlier executes
    hist               \* history: the calls made (scenario specification only)

sim == <<roads, buses, waiting_people, next_bus_id, event_queue, current_time>>
frame == <<pc, time_units_count, end_time, loop_time, cloned_events, events>>
ghost == <<log, added, prev_last>>
vars == <<sim, frame, fatal, ghost, hist>>

\* ------------------------------------------------------------ finite maps
EmptyMap == [x \in {} |-> 0]

Put(m, k, v) == [x \in DOMAIN m \cup {k} |-> IF x = k THEN v ELSE m[x]]

Get(m, k, default) == IF k \in DOMAIN m THEN m[k] ELSE default

Range(s) == {s[i] : i \in DOMAIN s}

\* All orders in which a finite set can be iterated.
Orders(S) ==
    {s \in [1..Cardinality(S) -> S] : \A i, j \in DOMAIN s : s[i] = s[j] => i = j}

\* ------------------------------------------------------------------- Bus
\* NewBusRecord as it would be if the ids were counted from 1.
NewBusRecordFromOne(route, id) ==
    [id |-> id + 1,
     route |-> route,
     upcoming_stops |-> {route[i] : i \in DOMAIN route},
     time_people_getting_off |-> [x \in {} |-> 0],
     finished |-> FALSE]

\* Bus::new
NewBusRecord(route, id) ==
    [id |-> id,
     route |-> route,
     upcoming_stops |-> Range(route),
     time_people_getting_off |-> EmptyMap,
     finished |-> FALSE]

\* Bus::current_stop (front().unwrap(): the route must not be empty)
current_stop(bus) == Head(bus.route)

\* Bus::is_upcoming_stop; && does not evaluate current_stop when the set
\* does not contain the city.
is_upcoming_stop(bus, city) ==
    city \in bus.upcoming_stops /\ city # current_stop(bus)

\* move_to_next as it would be if the bus left two stops behind at a time.
MoveToNextSkipsStop(bus) ==
    IF bus.finished THEN bus
    ELSE IF bus.route # <<>>
         THEN [bus EXCEPT !.route = SubSeq(bus.route, 3, Len(bus.route)),
                          !.upcoming_stops =
                              @ \ {bus.route[i] : i \in DOMAIN bus.route \cap {1, 2}}]
         ELSE [bus EXCEPT !.finished = TRUE]

\* move_to_next as it would be if a call on a finished bus started it again.
MoveToNextRestarts(bus) ==
    IF bus.finished THEN [bus EXCEPT !.finished = FALSE]
    ELSE IF bus.route # <<>>
         THEN [bus EXCEPT !.route = Tail(bus.route),
                          !.upcoming_stops = @ \ {Head(bus.route)}]
         ELSE [bus EXCEPT !.finished = TRUE]

\* move_to_next as it would be if the stop were taken from upcoming_stops
\* only and stayed on the route.
MoveToNextKeepsRoute(bus) ==
    IF bus.finished THEN bus
    ELSE IF bus.route # <<>>
         THEN [bus EXCEPT !.upcoming_stops = @ \ {Head(bus.route)}]
         ELSE [bus EXCEPT !.finished = TRUE]

\* Bus::move_to_next
move_to_next(bus) ==
    IF bus.finished THEN bus
    ELSE IF bus.route # <<>>
         THEN [bus EXCEPT !.route = Tail(bus.route),
                          !.upcoming_stops = @ \ {Head(bus.route)}]
         ELSE [bus EXCEPT !.finished = TRUE]

\* RoadTimes as it would be if a road were matched in its stored direction
\* only.
RoadTimesOneWay(rs, a, b) == {r[3] : r \in {q \in rs : q[1] = a /\ q[2] = b}}

\* The travel times of the roads that join a and b, in either direction.
RoadTimes(rs, a, b) ==
    {r[3] : r \in {q \in rs : (q[1] = a /\ q[2] = b) \/ (q[1] = b /\ q[2] = a)}}

\* The pairs of cities joined by roads of more than one travel time.
AmbiguousPairs(rs) ==
    {k \in {{r[1], r[2]} : r \in rs} :
        \E a, b \in k : k = {a, b} /\ Cardinality(RoadTimes(rs, a, b)) > 1}

\* roads.iter().find(..): which of several roads between two cities is found
\* depends on the iteration order of the HashSet. A pick names, for every
\* ambiguous pair, the travel time of the road that is found.
RoadPicks(rs) ==
    {p \in [AmbiguousPairs(rs) -> {r[3] : r \in rs}] :
        \A k \in DOMAIN p : \E a, b \in k : k = {a, b} /\ p[k] \in RoadTimes(rs, a, b)}

\* The travel time of the road found between a and b (-1: none found).
FoundRoad(rs, pick, a, b) ==
    IF RoadTimes(rs, a, b) = {} THEN -1
    ELSE IF {a, b} \in DOMAIN pick THEN pick[{a, b}]
    ELSE CHOOSE t \in RoadTimes(rs, a, b) : TRUE

\* The loop of Bus::calculate_travel_time over route.iter().skip(1), from
\* position i, with the running total and the running current_stop.
RECURSIVE WalkRoute(_, _, _, _, _, _, _)
WalkRoute(rs, pick, route, i, stop, cur, total) ==
    IF i > Len(route) THEN total
    ELSE LET t == FoundRoad(rs, pick, cur, route[i])
         IN  IF t >= 0
             THEN IF route[i] = stop
                  THEN total + t
                  ELSE WalkRoute(rs, pick, route, i + 1, stop, route[i], total + t)
             ELSE WalkRoute(rs, pick, route, i + 1, stop, cur, total)

\* Bus::calculate_travel_time: the value returned.
calculate_travel_time(bus, rs, pick, stop, now) ==
    IF stop \in DOMAIN bus.time_people_getting_off
    THEN bus.time_people_getting_off[stop]
    ELSE WalkRoute(rs, pick, bus.route, 2, stop, current_stop(bus), now)

\* Bus::calculate_travel_time: the bus afterwards (the memo is filled).
RememberTravelTime(bus, rs, pick, stop, now) ==
    IF stop \in DOMAIN bus.time_people_getting_off
    THEN bus
    ELSE [bus EXCEPT !.time_people_getting_off =
              Put(@, stop, calculate_travel_time(bus, rs, pick, stop, now))]

\* ------------------------------------------------------------ Simulation
\* valid_route as it would be if a road were matched in its stored direction
\* only.
valid_route_one_way(rs, route) ==
    /\ ~(Len(route) < 2)
    /\ \A i \in 1..(Len(route) - 1) :
           \E road \in rs : road[1] = route[i] /\ road[2] = route[i + 1]

\* Simulation::valid_route: TRUE when it returns, FALSE when it panics.
valid_route(rs, route) ==
    /\ ~(Len(route) < 2)
    /\ \A i \in 1..(Len(route) - 1) :
           \E road \in rs :
               \/ (road[1] = route[i] /\ road[2] = route[i + 1])
               \/ (road[1] = route[i + 1] /\ road[2] = route[i])

\* Event { bus, city, got_off_count, got_on_count }; the bus by its id.
NewEvent(bus_id, city) ==
    [bus |-> bus_id, city |-> city, got_off_count |-> 0, got_on_count |-> 0]

\* add_event as it would be if the event were scheduled one tick later.
AddEventNextTick(queue, event, time) == Put(queue, <<time + 1, event.bus>>, event)

\* Simulation::add_event: BTreeMap::insert replaces an entry of the same key.
add_event(queue, event, time) == Put(queue, <<time, event.bus>>, event)

\* MergeEvent as it would be if the count replaced the one of the entry.
MergeEventOverwrites(queue, time, bus_id, destination, people_waiting) ==
    LET existed_event == Get(queue, <<time, bus_id>>, NewEvent(bus_id, destination))
    IN  Put(queue, <<time, bus_id>>,
            [existed_event EXCEPT !.got_off_count = people_waiting])

\* The entry of process_waiting_people's `existed_event` after
\* entry(..).or_insert_with(..) and got_off_count += people_waiting.
MergeEvent(queue, time, bus_id, destination, people_waiting) ==
    LET existed_event == Get(queue, <<time, bus_id>>, NewEvent(bus_id, destination))
    IN  Put(queue, <<time, bus_id>>,
            [existed_event EXCEPT !.got_off_count = @ + people_waiting])

\* ResetWaiting as it would be if the waiting count were not reset.
ResetWaitingKeeps(waiting, city, destination) == waiting

\* The ledger after `*city_waiting_people.get_mut(destination).unwrap() = 0`.
ResetWaiting(waiting, city, destination) ==
    [waiting EXCEPT ![city] = [@ EXCEPT ![destination] = 0]]

\* BoardDestination as it would be if the boarded count of the event were
\* set to the people of the destination instead of increased by them.
BoardDestinationSetsCount(st, rs, pick, destinations, destination, now) ==
    LET people_waiting == destinations[destination]
        bus == st.bus
    IN  IF people_waiting > 0 /\ is_upcoming_stop(bus, destination)
        THEN LET travel_time == calculate_travel_time(bus, rs, pick, destination, now)
             IN  [bus |-> RememberTravelTime(bus, rs, pick, destination, now),
                  queue |-> MergeEvent(st.queue, travel_time, bus.id,
                                       destination, people_waiting),
                  waiting |-> ResetWaiting(st.waiting, st.event.city, destination),
                  event |-> [st.event EXCEPT !.got_on_count = people_waiting],
                  log |-> Append(st.log,
                                 [tick |-> now, bus |-> bus.id, city |-> st.event.city,
                                  destination |-> destination, target |-> travel_time,
                                  count |-> people_waiting, route |-> bus.route,
                                  existed |-> <<travel_time, bus.id>> \in DOMAIN st.queue,
                                  before |-> Get(st.queue, <<travel_time, bus.id>>,
                                                 NewEvent(bus.id, destination)).got_off_count])]
        ELSE st

\* One iteration of the loop of process_waiting_people over the cloned
\* `destinations`. st holds the bus, the queue, the ledger, the event being
\* processed and the boardings recorded so far.
BoardDestination(st, rs, pick, destinations, destination, now) ==
    LET people_waiting == destinations[destination]
        bus == st.bus
    IN  IF people_waiting > 0 /\ is_upcoming_stop(bus, destination)
        THEN LET travel_time == calculate_travel_time(bus, rs, pick, destination, now)
             IN  [bus |-> RememberTravelTime(bus, rs, pick, destination, now),
                  queue |-> MergeEvent(st.queue, travel_time, bus.id,
                                       destination, people_waiting),
                  waiting |-> ResetWaiting(st.waiting, st.event.city, destination),
                  event |-> [st.event EXCEPT !.got_on_count = @ + people_waiting],
                  log |-> Append(st.log,
                                 [tick |-> now, bus |-> bus.id, city |-> st.event.city,
                                  destination |-> destination, target |-> travel_time,
                                  count |-> people_waiting, route |-> bus.route,
                                  existed |-> <<travel_time, bus.id>> \in DOMAIN st.queue,
                                  before |-> Get(st.queue, <<travel_time, bus.id>>,
                                                 NewEvent(bus.id, destination)).got_off_count])]
        ELSE st

RECURSIVE BoardAll(_, _, _, _, _, _, _)
BoardAll(st, rs, pick, destinations, order, i, now) ==
    IF i > Len(order) THEN st
    ELSE BoardAll(BoardDestination(st, rs, pick, destinations, order[i], now),
                  rs, pick, destinations, order, i + 1, now)

\* Simulation::process_waiting_people, the destinations iterated in `order`.
process_waiting_people(bus, queue, waiting, rs, pick, event, order, now) ==
    LET st0 == [bus |-> bus, queue |-> queue, waiting |-> waiting,
                event |-> event, log |-> <<>>]
    IN  IF event.city \in DOMAIN waiting
        THEN BoardAll(st0, rs, pick, waiting[event.city], order, 1, now)
        ELSE st0

\* The iteration orders of the cloned `destinations` of a city.
DestinationOrders(waiting, city) ==
    IF city \in DOMAIN waiting THEN Orders(DOMAIN waiting[city]) ELSE {<<>>}

\* ClonedEvents as it would be if the events of a tick came by descending
\* bus id.
RECURSIVE ClonedEventsDescending(_, _, _)
ClonedEventsDescending(queue, time, bus_id) ==
    IF bus_id < 0 THEN <<>>
    ELSE IF <<time, bus_id>> \in DOMAIN queue
         THEN <<queue[<<time, bus_id>>]>> \o ClonedEventsDescending(queue, time, bus_id - 1)
         ELSE ClonedEventsDescending(queue, time, bus_id - 1)

\* bus_events.values().cloned().collect(): the events of a tick, by bus id.
RECURSIVE ClonedEvents(_, _, _)
ClonedEvents(queue, time, bus_id) ==
    IF bus_id < 0 THEN <<>>
    ELSE IF <<time, bus_id>> \in DOMAIN queue
         THEN Append(ClonedEvents(queue, time, bus_id - 1), queue[<<time, bus_id>>])
         ELSE ClonedEvents(queue, time, bus_id - 1)

\* DueTicks as it would be if the loop of execute started from tick 0.
DueTicksFromStart(queue, from, to) == {k[1] : k \in DOMAIN queue} \cap (0..(to - 1))

\* The ticks of [from, to) that have entries in the queue.
DueTicks(queue, from, to) == {k[1] : k \in DOMAIN queue} \cap (from..(to - 1))

Min(S) == CHOOSE x \in S : \A y \in S : x <= y

TotalWaiting(waiting) ==
    LET pairs == {<<a, b>> \in Cities \X Cities :
                     a \in DOMAIN waiting /\ b \in DOMAIN waiting[a]}
        RECURSIVE Sum(_)
        Sum(S) == IF S = {} THEN 0
                  ELSE LET x == CHOOSE y \in S : TRUE
                       IN  waiting[x[1]][x[2]] + Sum(S \ {x})
    IN  Sum(pairs)

\* ------------------------------------------------------------------ Init
\* Simulation::new
Init ==
    /\ roads = {}
    /\ buses = <<>>
    /\ waiting_people = EmptyMap
    /\ next_bus_id = 0
    /\ event_queue = EmptyMap
    /\ current_time = 0
    /\ pc = "idle"
    /\ time_units_count = 0
    /\ end_time = 0
    /\ loop_time = 0
    /\ cloned_events = <<>>
    /\ events = <<>>
    /\ fatal = FALSE
    /\ log = <<>>
    /\ added = [p \in Cities \X Cities |-> 0]
    /\ prev_last = -1
    /\ hist = <<>>

\* --------------------------------------------------------------- actions
Callable == pc = "idle" /\ ~fatal

\* Simulation::new_city: the simulation keeps no record of a city.
NewCity(name) ==
    /\ Callable
    /\ UNCHANGED <<sim, frame, fatal, ghost>>

\* Simulation::new_road
NewRoad(road) ==
    /\ Callable
    /\ roads' = roads \cup {road}
    /\ UNCHANGED <<buses, waiting_people, next_bus_id, event_queue, current_time>>
    /\ UNCHANGED <<frame, fatal, ghost>>

\* Simulation::new_bus; valid_route panics before anything is changed.
NewBus(route) ==
    /\ Callable
    /\ IF valid_route(roads, route)
       THEN LET bus == NewBusRecord(route, next_bus_id)
            IN  /\ buses' = Append(buses, bus)
                /\ next_bus_id' = next_bus_id + 1
                /\ event_queue' = add_event(event_queue,
                                            NewEvent(bus.id, current_stop(bus)),
                                            current_time)
                /\ UNCHANGED fatal
       ELSE /\ fatal' = TRUE
            /\ UNCHANGED <<buses, next_bus_id, event_queue>>
    /\ UNCHANGED <<roads, waiting_people, current_time, frame, ghost>>

\* AddPeople as it would be if the count replaced the one of the ledger.
AddPeopleOverwrites(from, to, count) ==
    /\ Callable
    /\ waiting_people' =
           LET destination_counts == Get(waiting_people, from, EmptyMap)
           IN  Put(waiting_people, from, Put(destination_counts, to, count))
    /\ added' = [added EXCEPT ![<<from, to>>] = @ + count]
    /\ UNCHANGED <<roads, buses, next_bus_id, event_queue, current_time>>
    /\ UNCHANGED <<frame, fatal, log, prev_last>>

\* Simulation::add_people
AddPeople(from, to, count) ==
    /\ Callable
    /\ waiting_people' =
           LET destination_counts == Get(waiting_people, from, EmptyMap)
           IN  Put(waiting_people, from,
                   Put(destination_counts, to, Get(destination_counts, to, 0) + count))
    /\ added' = [added EXCEPT ![<<from, to>>] = @ + count]
    /\ UNCHANGED <<roads, buses, next_bus_id, event_queue, current_time>>
    /\ UNCHANGED <<frame, fatal, log, prev_last>>

\* NextTick as it would be if the first event of a tick were not cloned.
NextTickDropsFirst(queue, from, to) ==
    LET due == DueTicks(queue, from, to)
    IN  IF due = {}
        THEN [time |-> to, cloned |-> <<>>]
        ELSE [time |-> Min(due),
              cloned |-> Tail(ClonedEvents(queue, Min(due), next_bus_id - 1))]

\* The for loop of execute from tick `from` on: the next tick below `to` that
\* has events, where they are cloned (the ticks without events change
\* nothing); `to` with nothing cloned when there is none.
NextTick(queue, from, to) ==
    LET due == DueTicks(queue, from, to)
    IN  IF due = {}
        THEN [time |-> to, cloned |-> <<>>]
        ELSE [time |-> Min(due),
              cloned |-> ClonedEvents(queue, Min(due), next_bus_id - 1)]

\* Simulation::execute, up to the first tick of the loop that has events.
ExecuteBegin(n) ==
    /\ Callable
    /\ pc' = "loop"
    /\ time_units_count' = n
    /\ events' = <<>>
    /\ end_time' = current_time + n
    /\ loop_time' = NextTick(event_queue, current_time, current_time + n).time
    /\ cloned_events' = NextTick(event_queue, current_time, current_time + n).cloned
    /\ UNCHANGED <<sim, fatal, ghost>>

\* The body of the inner loop of execute for one cloned event:
\* process_waiting_people, move_to_next, events.push; after the last event of
\* a tick, the loop goes on to the next tick that has events.
Dispatch(pick, order) ==
    /\ pc = "loop"
    /\ cloned_events # <<>>
    /\ LET event == Head(cloned_events)
           st == process_waiting_people(buses[event.bus + 1], event_queue,
                                        waiting_people, roads, pick, event,
                                        order, loop_time)
           next == NextTick(st.queue, loop_time + 1, end_time)
       IN  /\ buses' = [buses EXCEPT ![event.bus + 1] = move_to_next(st.bus)]
           /\ event_queue' = st.queue
           /\ waiting_people' = st.waiting
           /\ events' = Append(events, [bus |-> st.event.bus,
                                        city |-> st.event.city,
                                        got_off_count |-> st.event.got_off_count,
                                        got_on_count |-> st.event.got_on_count,
                                        tick |-> loop_time])
           /\ log' = st.log
           /\ added' = [p \in Cities \X Cities |->
                           IF \E i \in DOMAIN st.log :
                                  <<st.log[i].city, st.log[i].destination>> = p
                           THEN 0 ELSE added[p]]
           /\ IF Tail(cloned_events) # <<>>
              THEN /\ cloned_events' = Tail(cloned_events)
                   /\ UNCHANGED loop_time
              ELSE /\ cloned_events' = next.cloned
                   /\ loop_time' = next.time
    /\ UNCHANGED <<roads, next_bus_id, current_time>>
    /\ UNCHANGED <<pc, time_units_count, end_time, fatal, prev_last>>

\* ExecuteEnd as it would be if the clock advanced only when events were
\* dispatched.
ExecuteEndSkipsIdleWindow ==
    /\ pc = "loop"
    /\ cloned_events = <<>>
    /\ loop_time >= end_time
    /\ current_time' = IF events = <<>> THEN current_time
                       ELSE current_time + time_units_count
    /\ pc' = "idle"
    /\ time_units_count' = 0
    /\ end_time' = 0
    /\ loop_time' = 0
    /\ events' = <<>>
    /\ log' = <<>>
    /\ prev_last' = IF events = <<>> THEN prev_last ELSE events[Len(events)].tick
    /\ UNCHANGED <<roads, buses, waiting_people, next_bus_id, event_queue>>
    /\ UNCHANGED <<cloned_events, fatal, added>>

\* Simulation::execute, after the loop: the vector `events` is returned.
ExecuteEnd ==
    /\ pc = "loop"
    /\ cloned_events = <<>>
    /\ loop_time >= end_time
    /\ current_time' = current_time + time_units_count
    /\ pc' = "idle"
    /\ time_units_count' = 0
    /\ end_time' = 0
    /\ loop_time' = 0
    /\ events' = <<>>
    /\ log' = <<>>
    /\ prev_last' = IF events = <<>> THEN prev_last ELSE events[Len(events)].tick
    /\ UNCHANGED <<roads, buses, waiting_people, next_bus_id, event_queue>>
    /\ UNCHANGED <<cloned_events, fatal, added>>

\* The state of a running execute as a record.
Running ==
    [buses |-> buses, queue |-> event_queue, waiting |-> waiting_people,
     time |-> loop_time, cloned |-> cloned_events, events |-> events,
     end |-> end_time]

\* Dispatch as a function of the state of the running execute: the state
\* after the first cloned event has been processed.
DispatchStep(s, pick, order) ==
    LET event == Head(s.cloned)
        st == process_waiting_people(s.buses[event.bus + 1], s.queue, s.waiting,
                                     roads, pick, event, order, s.time)
        next == NextTick(st.queue, s.time + 1, s.end)
        last == Tail(s.cloned) = <<>>
    IN  [buses |-> [s.buses EXCEPT ![event.bus + 1] = move_to_next(st.bus)],
         queue |-> st.queue,
         waiting |-> st.waiting,
         time |-> IF last THEN next.time ELSE s.time,
         cloned |-> IF last THEN next.cloned ELSE Tail(s.cloned),
         events |-> Append(s.events, [bus |-> st.event.bus,
                                      city |-> st.event.city,
                                      got_off_count |-> st.event.got_off_count,
                                      got_on_count |-> st.event.got_on_count,
                                      tick |-> s.time]),
         end |-> s.end]

\* The vectors that the running execute can return from state s on, one for
\* every iteration order of the roads and of the destinations.
RECURSIVE Completions(_)
Completions(s) ==
    IF s.cloned = <<>> THEN {s.events}
    ELSE UNION {Completions(DispatchStep(s, pick, order)) :
                   pick \in RoadPicks(roads),
                   order \in DestinationOrders(s.waiting, Head(s.cloned).city)}

\* ---------------------------------------------------------- specification
\* The routes offered to the next new_bus call.
RouteInputs ==
    BadRouteInputs \cup
        (IF Len(buses) + 1 \in DOMAIN FleetInputs THEN FleetInputs[Len(buses) + 1] ELSE {})

Next ==
    \/ \E name \in Cities : NewCity(name) /\ UNCHANGED hist
    \/ \E i \in DOMAIN RoadInputs :
           /\ \A j \in 1..(i - 1) : RoadInputs[j] \in roads
           /\ RoadInputs[i] \notin roads
           /\ NewRoad(RoadInputs[i]) /\ UNCHANGED hist
    \/ \E route \in RouteInputs : NewBus(route) /\ UNCHANGED hist
    \/ \E people \in PeopleInputs, count \in PeopleCounts :
           /\ TotalWaiting(waiting_people) + count <= MaxWaiting
           /\ AddPeople(people[1], people[2], count) /\ UNCHANGED hist
    \/ \E n \in 1..MaxTime :
           current_time + n <= MaxTime /\ ExecuteBegin(n) /\ UNCHANGED hist
    \/ \E pick \in RoadPicks(roads) :
           \E order \in DestinationOrders(waiting_people,
                                          IF cloned_events = <<>> THEN 0
                                          ELSE Head(cloned_events).city) :
               Dispatch(pick, order) /\ UNCHANGED hist
    \/ ExecuteEnd /\ UNCHANGED hist

Spec == Init /\ [][Next]_vars

\* The scenario of main(): the state after its new_city and new_road calls,
\* then its new_bus, add_people and execute calls in any order, each call
\* recorded in hist.
InitScenario ==
    /\ roads = ScenarioRoads
    /\ buses = <<>>
    /\ waiting_people = EmptyMap
    /\ next_bus_id = 0
    /\ event_queue = EmptyMap
    /\ current_time = 0
    /\ pc = "idle"
    /\ time_units_count = 0
    /\ end_time = 0
    /\ loop_time = 0
    /\ cloned_events = <<>>
    /\ events = <<>>
    /\ fatal = FALSE
    /\ log = <<>>
    /\ added = [p \in Cities \X Cities |-> 0]
    /\ prev_last = -1
    /\ hist = <<>>

Call(name, arg) == [call |-> name, arg |-> arg]

NextScenario ==
    \/ \E route \in ScenarioRoutes :
           /\ Len(hist) < MaxCalls
           /\ NewBus(route)
           /\ hist' = Append(hist, Call("new_bus", route))
    \/ \E people \in ScenarioPeople :
           /\ Len(hist) < MaxCalls
           /\ AddPeople(people[1], people[2], people[3])
           /\ hist' = Append(hist, Call("add_people", people))
    \/ \E n \in ScenarioTicks :
           /\ Len(hist) < MaxCalls
           /\ ExecuteBegin(n)
           /\ hist' = Append(hist, Call("execute", <<n>>))
    \/ \E pick \in RoadPicks(roads) :
           \E order \in DestinationOrders(waiting_people,
                                          IF cloned_events = <<>> THEN 0
                                          ELSE Head(cloned_events).city) :
               Dispatch(pick, order) /\ UNCHANGED hist
    \/ ExecuteEnd /\ UNCHANGED hist

SpecScenario == InitScenario /\ [][NextScenario]_vars

\* A bus on its own: Bus::new over BusRoads, then calls of
\* calculate_travel_time and move_to_next in any order. hist records each call
\* with the bus as it was before the call and the value returned (-1: none).
InitBus ==
    /\ roads = BusRoads
    /\ buses \in {<<NewBusRecord(route, 0)>> : route \in BusRouteInputs}
    /\ waiting_people = EmptyMap
    /\ next_bus_id = 1
    /\ event_queue = EmptyMap
    /\ current_time = 0
    /\ pc = "idle"
    /\ time_units_count = 0
    /\ end_time = 0
    /\ loop_time = 0
    /\ cloned_events = <<>>
    /\ events = <<>>
    /\ fatal = FALSE
    /\ log = <<>>
    /\ added = [p \in Cities \X Cities |-> 0]
    /\ prev_last = -1
    /\ hist = <<>>

BusCall(name, arg, bus, result) ==
    [call |-> name, arg |-> arg, bus |-> bus, result |-> result]

\* Bus::calculate_travel_time on the bus; current_stop panics on an empty
\* route when the stop is not in the memo.
TravelTime(pick, stop, now) ==
    /\ ~fatal
    /\ Len(hist) < MaxCalls
    /\ LET bus == buses[1]
       IN  IF stop \notin DOMAIN bus.time_people_getting_off /\ bus.route = <<>>
           THEN /\ fatal' = TRUE
                /\ hist' = Append(hist, BusCall("calculate_travel_time",
                                                <<stop, now>>, bus, -1))
                /\ UNCHANGED buses
           ELSE /\ buses' = <<RememberTravelTime(bus, roads, pick, stop, now)>>
                /\ hist' = Append(hist,
                                  BusCall("calculate_travel_time", <<stop, now>>, bus,
                                          calculate_travel_time(bus, roads, pick, stop, now)))
                /\ UNCHANGED fatal
    /\ UNCHANGED <<roads, waiting_people, next_bus_id, event_queue, current_time>>
    /\ UNCHANGED <<frame, ghost>>

\* Bus::move_to_next on the bus.
MoveToNext ==
    /\ ~fatal
    /\ Len(hist) < MaxCalls
    /\ buses' = <<move_to_next(buses[1])>>
    /\ hist' = Append(hist, BusCall("move_to_next", <<>>, buses[1], -1))
    /\ UNCHANGED <<roads, waiting_people, next_bus_id, event_queue, current_time>>
    /\ UNCHANGED <<frame, fatal, ghost>>

NextBus ==
    \/ \E pick \in RoadPicks(roads) :
           \E stop \in BusStopInputs, now \in BusNowInputs : TravelTime(pick, stop, now)
    \/ MoveToNext

SpecBus == InitBus /\ [][NextBus]_vars

\* The town: the state after its new_city and new_road calls, then new_bus,
\* add_people and execute calls in any order.
InitTown ==
    /\ roads = TownRoads
    /\ buses = <<>>
    /\ waiting_people = EmptyMap
    /\ next_bus_id = 0
    /\ event_queue = EmptyMap
    /\ current_time = 0
    /\ pc = "idle"
    /\ time_units_count = 0
    /\ end_time = 0
    /\ loop_time = 0
    /\ cloned_events = <<>>
    /\ events = <<>>
    /\ fatal = FALSE
    /\ log = <<>>
    /\ added = [p \in Cities \X Cities |-> 0]
    /\ prev_last = -1
    /\ hist = <<>>

NextTown ==
    \/ \E route \in TownRoutes :
           Len(buses) < Cardinality(TownRoutes) /\ NewBus(route) /\ UNCHANGED hist
    \/ \E people \in TownPeople :
           /\ TotalWaiting(waiting_people) + 1 <= MaxWaiting
           /\ AddPeople(people[1], people[2], 1) /\ UNCHANGED hist
    \/ \E n \in 1..MaxTime :
           current_time + n <= MaxTime /\ ExecuteBegin(n) /\ UNCHANGED hist
    \/ \E pick \in RoadPicks(roads) :
           \E order \in DestinationOrders(waiting_people,
                                          IF cloned_events = <<>> THEN 0
                                          ELSE Head(cloned_events).city) :
               Dispatch(pick, order) /\ UNCHANGED hist
    \/ ExecuteEnd /\ UNCHANGED hist

SpecTown == InitTown /\ [][NextTown]_vars

\* HeldEvents as it would be if the events returned were the Arcs of the
\* queue, so that the caller saw the alighted counts of the queue entries.
HeldEventsShared(returned, queue) ==
    [i \in DOMAIN returned |->
        [returned[i] EXCEPT
            !.got_off_count = queue[<<returned[i].tick, returned[i].bus>>].got_off_count]]

\* What the caller sees of the events that execute has returned to it:
\* process_waiting_people returns a new Arc of a clone of the queue entry, so
\* later writes to the queue do not reach them.
HeldEvents(returned, queue) == returned

\* The line: the state after its new_city and new_road calls, then new_bus,
\* add_people and execute calls in any order. hist records the run: the events
\* returned so far as the caller holds them, the people passed to add_people,
\* and the buses created with their routes and ticks of creation.
InitLine ==
    /\ roads = LineRoads
    /\ buses = <<>>
    /\ waiting_people = EmptyMap
    /\ next_bus_id = 0
    /\ event_queue = EmptyMap
    /\ current_time = 0
    /\ pc = "idle"
    /\ time_units_count = 0
    /\ end_time = 0
    /\ loop_time = 0
    /\ cloned_events = <<>>
    /\ events = <<>>
    /\ fatal = FALSE
    /\ log = <<>>
    /\ added = [p \in Cities \X Cities |-> 0]
    /\ prev_last = -1
    /\ hist = [returned |-> <<>>, added |-> 0, created |-> <<>>]

NextLine ==
    \/ \E route \in {LineRoutes[i] : i \in {Len(buses) + 1} \cap DOMAIN LineRoutes} :
           /\ NewBus(route)
           /\ hist' = [hist EXCEPT
                          !.returned = HeldEvents(@, event_queue'),
                          !.created = Append(@, [bus |-> next_bus_id, route |-> route,
                                                 tick |-> current_time])]
    \/ \E people \in LinePeople :
           /\ TotalWaiting(waiting_people) + 1 <= MaxWaiting
           /\ AddPeople(people[1], people[2], 1)
           /\ hist' = [hist EXCEPT !.returned = HeldEvents(@, event_queue'),
                                   !.added = @ + 1]
    \/ \E n \in 1..MaxTime :
           /\ current_time + n <= MaxRunTime
           /\ ExecuteBegin(n)
           /\ hist' = [hist EXCEPT !.returned = HeldEvents(@, event_queue')]
    \/ \E pick \in RoadPicks(roads) :
           \E order \in DestinationOrders(waiting_people,
                                          IF cloned_events = <<>> THEN 0
                                          ELSE Head(cloned_events).city) :
               /\ Dispatch(pick, order)
               /\ hist' = [hist EXCEPT
                              !.returned = Append(HeldEvents(@, event_queue'),
                                                  events'[Len(events')])]
    \/ /\ ExecuteEnd
       /\ hist' = [hist EXCEPT !.returned = HeldEvents(@, event_queue')]

SpecLine == InitLine /\ [][NextLine]_vars

\* The line with time running: buses are created and people are added
\* before the first execute call, then execute is called until MaxRunTime
\* ticks have been executed. A call of execute runs its loop to the end
\* (weak fairness of the loop steps); that the caller goes on calling
\* execute is what "enough ticks are executed" asks of it.
LiveSetup ==
    /\ current_time = 0
    /\ \/ \E route \in {LineRoutes[i] : i \in {Len(buses) + 1} \cap DOMAIN LineRoutes} :
              NewBus(route)
       \/ \E people \in LinePeople :
              /\ TotalWaiting(waiting_people) + 1 <= MaxWaiting
              /\ AddPeople(people[1], people[2], 1)
    /\ UNCHANGED hist

LiveExecute ==
    /\ \E n \in 1..MaxTime : current_time + n <= MaxRunTime /\ ExecuteBegin(n)
    /\ UNCHANGED hist

LiveDispatch ==
    /\ \E pick \in RoadPicks(roads) :
           \E order \in DestinationOrders(waiting_people,
                                          IF cloned_events = <<>> THEN 0
                                          ELSE Head(cloned_events).city) :
               Dispatch(pick, order)
    /\ UNCHANGED hist

LiveEnd == ExecuteEnd /\ UNCHANGED hist

NextLive == LiveSetup \/ LiveExecute \/ LiveDispatch \/ LiveEnd

SpecLive ==
    /\ InitLine
    /\ [][NextLive]_vars
    /\ WF_vars(LiveExecute)
    /\ WF_vars(LiveDispatch)
    /\ WF_vars(LiveEnd)

\* ------------------------------------------------------------------ claims
\* The waiting count of a pair (0 when the ledger has no entry for it).
WaitingCount(from, to) == Get(Get(waiting_people, from, EmptyMap), to, 0)

\* A step is a dispatch exactly when it pushes an event.
IsDispatch == Len(events') = Len(events) + 1

\* execute has left its loop and is about to return `events`.
Returning == pc = "loop" /\ cloned_events = <<>> /\ loop_time >= end_time

\* C1: whenever boarding resolution at the tick being processed schedules or
\* merges into a follow-on event, the target tick of that event is strictly
\* greater than the tick being processed.
C1_FollowOnStrictlyLater ==
    \A i \in DOMAIN log : log[i].target > log[i].tick

\* C2: every advance of an unfinished bus clears its travel-time cache:
\* right after the bus has moved to a new current stop the cache is empty.
C2_AdvanceClearsCache ==
    [][\A i \in DOMAIN buses :
           buses'[i].route # buses[i].route
               => buses'[i].time_people_getting_off = EmptyMap]_vars

\* The calls of the end-to-end scenario: one bus Plzen, Prague, Brno and 50
\* people at Prague for Brno, in either order, then execute(270).
EndToEndCalls ==
    LET bus == Call("new_bus", <<Plzen, Prague, Brno>>)
        people == Call("add_people", <<Prague, Brno, 50>>)
        run == Call("execute", <<270>>)
    IN  {<<bus, people, run>>, <<people, bus, run>>}

\* C3: in the end-to-end scenario execute(270) from tick 0 returns a sequence
\* that contains an event at Prague whose boarded count is 50 and an event at
\* Brno whose alighted count is 50. (The ticks the claim names for the two
\* events are not required here, so the formula asks for less than the claim.)
C3_EndToEnd ==
    (Returning /\ hist \in EndToEndCalls) =>
        /\ \E i \in DOMAIN events :
               events[i].city = Prague /\ events[i].got_on_count = 50
        /\ \E j \in DOMAIN events :
               events[j].city = Brno /\ events[j].got_off_count = 50

\* The position of the first occurrence of city in route at or after `from`
\* (0: none).
RECURSIVE FirstAt(_, _, _)
FirstAt(route, city, from) ==
    IF from > Len(route) THEN 0
    ELSE IF route[from] = city THEN from
    ELSE FirstAt(route, city, from + 1)

\* The sums of road travel times over the consecutive pairs of route from
\* position i to position j, one sum for each choice among parallel roads.
RECURSIVE SegmentTimes(_, _, _)
SegmentTimes(route, i, j) ==
    IF i >= j THEN {0}
    ELSE {t + rest : t \in RoadTimes(roads, route[i], route[i + 1]),
                     rest \in SegmentTimes(route, i + 1, j)}

\* C4: a boarding resolved while dispatching an event at city c at tick t for
\* bus B toward destination d schedules the follow-on event at t plus the sum
\* of the road travel times of the consecutive route segments of B from c to
\* d. (Stated for the boardings at a city that is still on B's remaining
\* route.)
C4_FollowOnAtRouteTime ==
    \A i \in DOMAIN log :
        LET b == log[i]
            c == FirstAt(b.route, b.city, 1)
            d == IF c = 0 THEN 0 ELSE FirstAt(b.route, b.destination, c)
        IN  (c > 0 /\ d > 0) =>
                b.target \in {b.tick + t : t \in SegmentTimes(b.route, c, d)}

\* The people that the boardings recorded in lg put on entry k of the queue.
RECURSIVE BoardedOnto(_, _, _)
BoardedOnto(lg, k, i) ==
    IF i > Len(lg) THEN 0
    ELSE (IF <<lg[i].target, lg[i].bus>> = k THEN lg[i].count ELSE 0)
         + BoardedOnto(lg, k, i + 1)

\* C5: the schedule holds one event per (tick, bus id), and a boarding
\* resolution that targets an entry that already exists adds its count to the
\* alighted count of that entry: no step removes an entry, changes its city or
\* bus, or sets its alighted count to anything but the old count plus the
\* people boarded onto it in that step.
C5_MergeIsAdditive ==
    [][\A k \in DOMAIN event_queue :
           /\ k \in DOMAIN event_queue'
           /\ event_queue'[k].bus = event_queue[k].bus
           /\ event_queue'[k].city = event_queue[k].city
           /\ event_queue'[k].got_off_count =
                  event_queue[k].got_off_count
                      + (IF IsDispatch THEN BoardedOnto(log', k, 1) ELSE 0)]_vars

\* C5 witness: a boarding has merged into an entry of a later tick that
\* already carried alighting passengers.
C5_Witness ==
    \E i \in DOMAIN log :
        log[i].existed /\ log[i].before > 0 /\ log[i].target > log[i].tick

\* C6: for every pair (a, b) the waiting count equals the sum of the counts of
\* the add_people(a, b, n) calls made since the last boarding resolution that
\* boarded the pair, or since the start.
C6_WaitingIsAddedSince ==
    \A a, b \in Cities : WaitingCount(a, b) = added[<<a, b>>]

\* C6 witness: people wait at 1 for 2 although people for 2 have been boarded
\* before (only the pair (1, 2) has destination 2): they were added after the
\* boarding zeroed the entry.
C6_Witness ==
    /\ WaitingCount(1, 2) = MaxWaiting
    /\ \E k \in DOMAIN event_queue :
           event_queue[k].city = 2 /\ event_queue[k].got_off_count = MaxWaiting

\* Two cities are joined by a road, in either direction.
Joined(a, b) == \E road \in roads : {road[1], road[2]} = {a, b}

\* A route of at least two stops whose consecutive stops are all joined.
RouteOk(route) ==
    Len(route) >= 2 /\ \A i \in 1..(Len(route) - 1) : Joined(route[i], route[i + 1])

\* C7: new_bus with a route of fewer than two stops, or with a consecutive
\* pair of stops that no road joins in either direction, fails fatally and
\* leaves the simulation unchanged; any other route is accepted: the bus is
\* added with the next id and its first event is scheduled.
C7_NewBusValidates ==
    [][\A route \in RouteInputs :
           NewBus(route) =>
               IF RouteOk(route)
               THEN /\ ~fatal'
                    /\ Len(buses') = Len(buses) + 1
                    /\ buses'[Len(buses')].route = route
                    /\ buses'[Len(buses')].id = next_bus_id
                    /\ next_bus_id' = next_bus_id + 1
                    /\ <<current_time, next_bus_id>> \in DOMAIN event_queue'
               ELSE /\ fatal'
                    /\ UNCHANGED sim]_vars

\* C7 witness: a new_bus call has failed after another one was accepted.
C7_Witness == fatal /\ Len(buses) = 1 /\ next_bus_id = 1

\* C8: current_time starts at 0; execute(n) increases it by exactly n when it
\* returns, whether or not a tick of the window had events; nothing else
\* changes it.
C8_TimeOnlyByExecute ==
    /\ current_time = 0
    /\ [][/\ \A n \in 1..MaxTime :
                ExecuteBegin(n) => time_units_count' = n /\ UNCHANGED current_time
          /\ (pc = "loop" /\ pc' = "loop") => UNCHANGED <<time_units_count, current_time>>
          /\ (pc = "loop" /\ pc' = "idle") =>
                current_time' = current_time + time_units_count
          /\ (pc = "idle" /\ pc' = "idle") => UNCHANGED current_time]_vars

\* C8 witness: execute calls have returned and time has advanced although no
\* event was ever scheduled.
C8_Witness == pc = "idle" /\ current_time = MaxTime /\ event_queue = EmptyMap

\* C9: the sequence execute(n) builds at current_time = T holds only events
\* scheduled at ticks of [T, T+n-1], in ascending tick order and, within a
\* tick, in ascending bus id order; its first event is not earlier than the
\* last event of the earlier execute calls.
C9_ReturnedInOrder ==
    pc = "loop" =>
        /\ \A i \in DOMAIN events :
               /\ events[i].tick \in current_time..(current_time + time_units_count - 1)
               /\ <<events[i].tick, events[i].bus>> \in DOMAIN event_queue
        /\ \A i, j \in DOMAIN events :
               i < j => \/ events[i].tick < events[j].tick
                        \/ /\ events[i].tick = events[j].tick
                           /\ events[i].bus < events[j].bus
        /\ events # <<>> => prev_last <= events[1].tick

\* C9 witness: execute is about to return two events of one tick and an event
\* of a later tick, after an earlier execute that returned events.
C9_Witness ==
    /\ Returning
    /\ prev_last >= 0
    /\ \E i, j, k \in DOMAIN events :
           /\ events[i].tick = events[j].tick
           /\ events[i].bus # events[j].bus
           /\ events[k].tick > events[i].tick

\* C10: once the route of a bus is exhausted the bus is finished, no schedule
\* entry is created for it or changed, and no passengers are boarded on it.
C10_ExhaustedBusIsDone ==
    [][\A i \in DOMAIN buses :
           buses[i].route = <<>> =>
               /\ buses[i].finished
               /\ \A k \in DOMAIN event_queue' :
                      k[2] = buses[i].id =>
                          k \in DOMAIN event_queue /\ event_queue'[k] = event_queue[k]
               /\ IsDispatch => \A j \in DOMAIN log' : log'[j].bus # buses[i].id]_vars

\* The two queries of the travel-time example, made one after the other on a
\* bus with route 1, 2, 3 that has not advanced.
TravelExample(h) ==
    /\ Len(h) = 2
    /\ h[1].bus = NewBusRecord(<<1, 2, 3>>, 0)
    /\ h[1].call = "calculate_travel_time" /\ h[1].arg = <<3, 0>>
    /\ h[2].call = "calculate_travel_time" /\ h[2].arg = <<3, 10>>

\* The general rule of the travel time: a query for a stop that is not in the
\* memo and that is an upcoming stop returns `now` plus the road times of the
\* consecutive route pairs from the current stop to the first occurrence of
\* the stop after it.
TravelRule(q) ==
    (/\ q.call = "calculate_travel_time"
     /\ q.arg[1] \notin DOMAIN q.bus.time_people_getting_off
     /\ is_upcoming_stop(q.bus, q.arg[1]))
        => q.result \in {q.arg[2] + t :
                            t \in SegmentTimes(q.bus.route, 1,
                                               FirstAt(q.bus.route, q.arg[1], 2))}

\* C11: on a bus with route c1, c2, c3 over roads of time 5 and 7 that has not
\* advanced, the travel time to c3 at now = 0 is 12 and, asked right after it,
\* at now = 10 is 22; and every query that is not answered from the memo
\* returns now plus the road times from the current stop to the stop.
C11_TravelTime ==
    /\ TravelExample(hist) => hist[1].result = 12 /\ hist[2].result = 22
    /\ \A i \in DOMAIN hist : TravelRule(hist[i])

\* The general rule of C11 on its own.
C11_Rule == \A i \in DOMAIN hist : TravelRule(hist[i])

\* C12: for every bus with a non-empty remaining route, is_upcoming_stop of
\* its current stop is false, and no passengers whose destination is the city
\* at which the bus is being dispatched, or the current stop of the bus, are
\* boarded there.
C12_NoBoardingForCurrentStop ==
    /\ \A i \in DOMAIN buses :
           buses[i].route # <<>> => ~is_upcoming_stop(buses[i], current_stop(buses[i]))
    /\ \A i \in DOMAIN log :
           /\ log[i].destination # Head(log[i].route)
           /\ log[i].destination # log[i].city

\* The first half of C12 on its own: is_upcoming_stop(current stop) is false.
C12_CurrentStopNotUpcoming ==
    \A i \in DOMAIN buses :
        buses[i].route # <<>> => ~is_upcoming_stop(buses[i], current_stop(buses[i]))

\* The travel time over the single segment a -> b: what calculate_travel_time
\* returns at tick 0 for stop b on a new bus with route a, b.
SegmentTime(pick, a, b) ==
    calculate_travel_time(NewBusRecord(<<a, b>>, 0), roads, pick, b, 0)

\* C13: roads are undirected. valid_route accepts the pair (a, b) exactly when
\* it accepts (b, a), and it accepts both for every road (a, b, t); the travel
\* time computed for the segment a -> b is the one computed for b -> a, and
\* it is t when no other road joins a and b.
C13_RoadsUndirected ==
    /\ \A a, b \in Cities : valid_route(roads, <<a, b>>) = valid_route(roads, <<b, a>>)
    /\ \A road \in roads :
           /\ valid_route(roads, <<road[1], road[2]>>)
           /\ valid_route(roads, <<road[2], road[1]>>)
           /\ \A pick \in RoadPicks(roads) :
                  /\ SegmentTime(pick, road[1], road[2]) = SegmentTime(pick, road[2], road[1])
                  /\ RoadTimes(roads, road[1], road[2]) = {road[3]}
                         => SegmentTime(pick, road[1], road[2]) = road[3]

\* C13 witness: passengers have boarded at 1 for 2 on a bus whose route was
\* accepted over the road stored as (2, 1), and their follow-on event is one
\* road time after the boarding.
C13_Witness ==
    /\ \A road \in roads : ~(road[1] = 1 /\ road[2] = 2)
    /\ \E i \in DOMAIN log, road \in roads :
           /\ road[1] = 2 /\ road[2] = 1
           /\ log[i].city = 1 /\ log[i].destination = 2
           /\ log[i].route[1] = 1 /\ log[i].route[2] = 2
           /\ log[i].target = log[i].tick + road[3]

\* C14: bus ids are unique and sequential from 0 in the order of the
\* successful new_bus calls: the k-th bus created carries the id k - 1, a
\* successful call adds one bus and leaves the others as they are, and a
\* failed call adds none.
C14_SequentialIds ==
    /\ [](\A i \in DOMAIN buses : buses[i].id = i - 1)
    /\ [][\A route \in RouteInputs :
              NewBus(route) =>
                  /\ \A i \in DOMAIN buses : buses'[i] = buses[i]
                  /\ IF fatal' THEN Len(buses') = Len(buses)
                     ELSE Len(buses') = Len(buses) + 1]_vars

\* C14 witness: two new_bus calls have succeeded and a third one has failed.
C14_Witness ==
    /\ fatal
    /\ Len(buses) = 2
    /\ {buses[i].id : i \in DOMAIN buses} = {0, 1}

\* What the caller sees of a returned vector: bus, city and the two counts of
\* each event, in order.
Returned(evs) ==
    [i \in DOMAIN evs |->
        [bus |-> evs[i].bus, city |-> evs[i].city,
         got_off_count |-> evs[i].got_off_count,
         got_on_count |-> evs[i].got_on_count]]

\* Dispatch and DispatchStep describe the same step.
DispatchStepAgrees ==
    [][IsDispatch =>
          \E pick \in RoadPicks(roads) :
              \E order \in DestinationOrders(waiting_people, Head(cloned_events).city) :
                  Running' = DispatchStep(Running, pick, order)]_vars

\* C15: the engine is deterministic. Two runs of the same calls return the
\* same events: from every state of a running execute, whatever the iteration
\* order of the roads and of the destinations, execute returns one and the
\* same vector (same order, bus, city, boarded and alighted counts).
C15_Deterministic ==
    pc = "loop" => Cardinality({Returned(evs) : evs \in Completions(Running)}) = 1

\* C16: every bus either is finished or has a non-empty remaining route (the
\* advance that pops the last stop sets finished in the same call).
C16_FinishedOrOnRoute ==
    \A i \in DOMAIN buses : buses[i].finished \/ buses[i].route # <<>>

\* C17: whenever an event of a bus is dispatched, the city of the event is the
\* head of the remaining route of the bus at that moment.
C17_EventAtRouteHead ==
    [][IsDispatch =>
          LET event == Head(cloned_events)
              bus == buses[event.bus + 1]
          IN  bus.route # <<>> /\ event.city = Head(bus.route)]_vars

\* The count of a pair in a ledger (0 when it has no entry for it).
CountIn(waiting, from, to) == Get(Get(waiting, from, EmptyMap), to, 0)

\* The people waiting at city c, in ledger `waiting`, for the destinations D.
RECURSIVE WaitingFor(_, _, _)
WaitingFor(waiting, c, D) ==
    IF D = {} THEN 0
    ELSE LET d == CHOOSE x \in D : TRUE
         IN  CountIn(waiting, c, d) + WaitingFor(waiting, c, D \ {d})

\* The destinations that the bus boards at city c: those with a positive
\* waiting count at c that are upcoming stops of the bus.
Boarding(bus, c) ==
    {d \in Cities : CountIn(waiting_people, c, d) > 0 /\ is_upcoming_stop(bus, d)}

\* C18: when an event at city c of bus B is dispatched, its boarded count is
\* the sum of the waiting counts, as they were before the dispatch, of the
\* destinations with a positive count at c that are upcoming stops of B, and
\* the ledger entry of each of them is 0 afterwards.
C18_BoardsUpcoming ==
    [][IsDispatch =>
          LET event == Head(cloned_events)
              bus == buses[event.bus + 1]
              D == Boarding(bus, event.city)
          IN  /\ events'[Len(events')].got_on_count
                     = WaitingFor(waiting_people, event.city, D)
              /\ \A d \in D : CountIn(waiting_people', event.city, d) = 0]_vars

\* C18 witness: the last dispatch has boarded the people of two destinations.
C18_Witness ==
    /\ events # <<>>
    /\ Len(log) = 2
    /\ log[1].destination # log[2].destination
    /\ events[Len(events)].got_on_count = log[1].count + log[2].count

\* C19: dispatching an event at city c of bus B leaves unchanged every ledger
\* entry whose origin is not c, every ledger entry (c, d) whose destination d
\* is not an upcoming stop of B, and every other bus; the remaining route of B
\* loses exactly its head stop.
C19_DispatchFrame ==
    [][IsDispatch =>
          LET event == Head(cloned_events)
              b == event.bus + 1
              bus == buses[b]
          IN  /\ DOMAIN waiting_people' = DOMAIN waiting_people
              /\ \A a \in DOMAIN waiting_people :
                     /\ DOMAIN waiting_people'[a] = DOMAIN waiting_people[a]
                     /\ \A d \in DOMAIN waiting_people[a] :
                            (a # event.city \/ ~is_upcoming_stop(bus, d))
                                => waiting_people'[a][d] = waiting_people[a][d]
              /\ \A i \in DOMAIN buses : i # b => buses'[i] = buses[i]
              /\ bus.route # <<>>
              /\ buses'[b].route = Tail(bus.route)]_vars

\* C19 witness: while somebody waited at 3 for 4, the second bus (route 2, 3)
\* has boarded people at 2 and has then been dispatched at 3, where 4 is not
\* one of its upcoming stops: the people at 3 are still waiting, and the first
\* bus is as its own single dispatch left it.
C19_Witness ==
    /\ Len(buses) = 2
    /\ buses[1] = move_to_next(NewBusRecord(<<1, 2, 3, 4>>, 0))
    /\ WaitingCount(3, 4) > 0
    /\ events # <<>>
    /\ events[Len(events)].bus = 1 /\ events[Len(events)].city = 3
    /\ \E i \in DOMAIN events :
           events[i].bus = 1 /\ events[i].city = 2 /\ events[i].got_on_count > 0

\* The schedule entries of a tick in a queue.
EntriesAt(queue, tick) == {queue[k] : k \in {x \in DOMAIN queue : x[1] = tick}}

\* C20: the events dispatched while tick t is processed are exactly the
\* schedule entries of t as they were when the processing of t began. When
\* the loop comes to a tick, the events to visit are the entries of that
\* tick, each once; every dispatch visits the first of them, with the counts
\* it had then, and leaves the others to visit, adding none, until the tick
\* is done.
C20_SnapshotPerTick ==
    [][/\ (pc' = "loop" /\ loop_time' < end_time' /\ (pc = "idle" \/ loop_time' # loop_time))
           => /\ Range(cloned_events') = EntriesAt(event_queue', loop_time')
              /\ Len(cloned_events') = Cardinality(EntriesAt(event_queue', loop_time'))
       /\ IsDispatch
           => LET event == Head(cloned_events)
                  pushed == events'[Len(events')]
              IN  /\ pushed.tick = loop_time
                  /\ pushed.bus = event.bus /\ pushed.city = event.city
                  /\ pushed.got_off_count = event.got_off_count
                  /\ IF Tail(cloned_events) # <<>>
                     THEN loop_time' = loop_time /\ cloned_events' = Tail(cloned_events)
                     ELSE loop_time' > loop_time]_vars

\* C20 witness: execute is about to return; a boarding has changed the entry
\* of a tick while that tick was processed, and the entry was visited once,
\* with the alighted count it had when the tick began.
C20_Witness ==
    /\ Returning
    /\ \E i \in DOMAIN events :
           LET k == <<events[i].tick, events[i].bus>>
           IN  /\ event_queue[k].got_off_count > events[i].got_off_count
               /\ \A j \in DOMAIN events :
                      <<events[j].tick, events[j].bus>> = k => j = i

\* C21: an event scheduled at tick T is dispatched only while tick T is
\* processed, and at most once over the whole run: every event returned so
\* far is the entry that the schedule holds (and keeps) for the tick at which
\* it was dispatched and for its bus, that tick lies in the window of the
\* execute call that returned it, and no entry was returned twice.
C21_DispatchedOnceAtItsTick ==
    /\ \A i \in DOMAIN hist.returned :
           LET e == hist.returned[i]
           IN  /\ <<e.tick, e.bus>> \in DOMAIN event_queue
               /\ event_queue[<<e.tick, e.bus>>].city = e.city
               /\ e.tick < (IF pc = "loop" THEN end_time ELSE current_time)
    /\ \A i, j \in DOMAIN hist.returned :
           (/\ hist.returned[i].tick = hist.returned[j].tick
            /\ hist.returned[i].bus = hist.returned[j].bus) => i = j
    /\ \A i \in DOMAIN events :
           /\ events[i].tick >= current_time
           /\ events[i] = hist.returned[Len(hist.returned) - Len(events) + i]

\* C21 witness: a second execute call is about to return an event while the
\* schedule still holds the entry of an event that an earlier call returned.
C21_Witness ==
    /\ Returning
    /\ events # <<>>
    /\ Len(hist.returned) > Len(events)
    /\ \E k \in DOMAIN event_queue : k[1] < current_time

C23_UpcomingIsRouteSet ==
    \A i \in DOMAIN buses : buses[i].upcoming_stops = Range(buses[i].route)

\* C24: is_upcoming_stop(c) is true exactly when c occurs in the remaining
\* route at a position after the head.
C24_UpcomingIffAhead ==
    \A i \in DOMAIN buses : \A c \in Cities :
        is_upcoming_stop(buses[i], c)
            <=> \E k \in 2..Len(buses[i].route) : buses[i].route[k] = c

\* C26: move_to_next on a bus that is already finished is a no-op: route,
\* upcoming_stops, memo and the finished flag stay as they are.
C26_FinishedAdvanceIsNoOp ==
    [][(/\ Len(hist') = Len(hist) + 1
        /\ hist'[Len(hist')].call = "move_to_next"
        /\ hist'[Len(hist')].bus.finished) => UNCHANGED buses]_vars

\* C26 witness: move_to_next has been called on a finished bus.
C26_Witness ==
    \E i \in DOMAIN hist : hist[i].call = "move_to_next" /\ hist[i].bus.finished

\* The remaining route of the bus contains x and, later, y: the bus has not
\* yet passed x and goes on to y.
Ahead(bus, x, y) ==
    \E j, k \in DOMAIN bus.route :
        j < k /\ bus.route[j] = x /\ bus.route[k] = y

\* People wait at x for y and a bus is still to come to x and then to y.
Served(x, y) ==
    WaitingCount(x, y) > 0 /\ \E i \in DOMAIN buses : Ahead(buses[i], x, y)

\* C25: liveness of service. If people wait at x for y and the route of some
\* bus contains x followed later by y, that bus not having passed x, then,
\* ticks being executed, those people are eventually boarded: the ledger
\* entry (x, y) becomes 0.
C25_Service ==
    \A x, y \in Cities : Served(x, y) ~> (WaitingCount(x, y) = 0)

\* People wait for a bus that is still to come to them, while the schedule
\* holds no entry at or after current_time: executing more ticks dispatches
\* nothing, whatever their number.
C25_Stranded ==
    /\ pc = "idle"
    /\ \E x, y \in Cities : Served(x, y)
    /\ \A k \in DOMAIN event_queue : k[1] < current_time

\* The sum of a field of the events of a sequence.
RECURSIVE SumOf(_, _)
SumOf(evs, field) ==
    IF evs = <<>> THEN 0 ELSE Head(evs)[field] + SumOf(Tail(evs), field)

\* C27: boarding conservation. The sum of the counts passed to add_people is
\* the sum of the waiting counts of the ledger plus the sum of the boarded
\* counts of the events dispatched so far.
C27_BoardingConserved ==
    hist.added = TotalWaiting(waiting_people) + SumOf(hist.returned, "got_on_count")

\* C27 witness: both buses have boarded people, and somebody is waiting.
C27_Witness ==
    /\ TotalWaiting(waiting_people) > 0
    /\ \E i, j \in DOMAIN hist.returned :
           /\ hist.returned[i].bus = 0 /\ hist.returned[i].got_on_count > 0
           /\ hist.returned[j].bus = 1 /\ hist.returned[j].got_on_count > 0

\* The alighted counts of the schedule entries at ticks from `from` on.
PendingAlighted(queue, from) ==
    LET RECURSIVE Sum(_)
        Sum(K) == IF K = {} THEN 0
                  ELSE LET k == CHOOSE x \in K : TRUE
                       IN  queue[k].got_off_count + Sum(K \ {k})
    IN  Sum({k \in DOMAIN queue : k[1] >= from})

\* C28: alighting conservation. Between execute calls, the boarded counts of
\* all events dispatched so far add up to their alighted counts plus the
\* alighted counts of the entries still pending at ticks >= current_time.
C28_AlightingConserved ==
    pc = "idle" =>
        SumOf(hist.returned, "got_on_count")
            = SumOf(hist.returned, "got_off_count")
                  + PendingAlighted(event_queue, current_time)

\* C29: the alighted count of an event at city x of bus B counts only people
\* who boarded B for x: every boarding adds its people to a schedule entry
\* whose city is their destination.
C29_AlightedAtDestination ==
    \A i \in DOMAIN log :
        LET k == <<log[i].target, log[i].bus>>
        IN  k \in DOMAIN event_queue /\ event_queue[k].city = log[i].destination

\* The events returned so far that belong to one bus, in the order returned.
EventsOf(bus_id) == SelectSeq(hist.returned, LAMBDA event : event.bus = bus_id)

\* C30: a successful new_bus at current_time = T adds exactly one schedule
\* entry, at (T, the new id), at the first stop of the route with both counts
\* 0 and leaves every other entry alone; and after the next execute the first
\* event returned for that bus is the one of tick T at that stop with
\* alighted count 0, whatever was executed before the bus was created.
C30_InitialEvent ==
    /\ [][Len(buses') = Len(buses) + 1 =>
            LET k == <<current_time, next_bus_id>>
            IN  /\ DOMAIN event_queue' = DOMAIN event_queue \cup {k}
                /\ k \notin DOMAIN event_queue
                /\ \A j \in DOMAIN event_queue : event_queue'[j] = event_queue[j]
                /\ event_queue'[k].bus = next_bus_id
                /\ event_queue'[k].city = buses'[Len(buses')].route[1]
                /\ event_queue'[k].got_on_count = 0
                /\ event_queue'[k].got_off_count = 0]_vars
    /\ [](pc = "idle" =>
            \A i \in DOMAIN hist.created :
                LET made == hist.created[i]
                IN  made.tick < current_time =>
                        /\ EventsOf(made.bus) # <<>>
                        /\ EventsOf(made.bus)[1].tick = made.tick
                        /\ EventsOf(made.bus)[1].city = made.route[1]
                        /\ EventsOf(made.bus)[1].got_off_count = 0)

\* A bus created after an earlier execute has had its first event returned.
C30_Witness ==
    /\ pc = "idle"
    /\ \E i \in DOMAIN hist.created :
           /\ hist.created[i].tick > 0
           /\ hist.created[i].tick < current_time
           /\ EventsOf(hist.created[i].bus) # <<>>

\* C31: for every bus, the number of events dispatched for it never exceeds
\* the number of stops of the route it was created with, and every dispatch
\* finds the bus with a stop left on its route: execute never calls
\* move_to_next on an empty route, and process_waiting_people never reads
\* current_stop of one.
C31_DispatchesWithinRoute ==
    /\ [](\A i \in DOMAIN hist.created :
              Len(EventsOf(hist.created[i].bus)) <= Len(hist.created[i].route))
    /\ [][IsDispatch =>
              /\ buses[Head(cloned_events).bus + 1].route # <<>>
              /\ ~buses[Head(cloned_events).bus + 1].finished]_vars

\* A bus has been dispatched once for every stop of its route, some of them
\* after people boarded it, and has no stop left.
C31_Witness ==
    /\ pc = "idle"
    /\ \E i \in DOMAIN hist.created :
           /\ Len(EventsOf(hist.created[i].bus)) = Len(hist.created[i].route)
           /\ buses[hist.created[i].bus + 1].route = <<>>
           /\ \E j \in DOMAIN hist.returned :
                  /\ hist.returned[j].bus = hist.created[i].bus
                  /\ hist.returned[j].got_on_count > 0

====
